---------------------------- MODULE Spec2Model ----------------------------
(***************************************************************************)
(* Session admission and lifecycle core of the VPN backend:                *)
(*   backend/src/services/wireguardService.js  (connect, disconnect,       *)
(*                                              updateStats, settle timer) *)
(*   backend/src/models/Connection.js          (session record, queries)   *)
(*   models/Server.js (src/unnamed/part_007)   (node record, isAvailable)  *)
(*   backend/src/services/serverService.js     (updateServerMetrics)       *)
(*   backend/src/jobs/serverMonitoring.js      (health sweep)              *)
(*                                                                         *)
(* Every `await` of the JavaScript code is a point where another handler,  *)
(* timer callback or cron task can run, so each handler is cut into one    *)
(* action per database operation it awaits.  A mongoose document that a    *)
(* handler holds is a private copy: save() writes the paths the handler    *)
(* changed on its copy, whatever the stored document has become meanwhile. *)
(***************************************************************************)
EXTENDS Integers, FiniteSets, Sequences, TLC

\* ------------------------------------------------------------------ bounds
MaxCalls == 3        \* requests and cron runs started in one behaviour
MaxCapacity == 2     \* largest maxUsers a node is configured with
MaxSockets == 2      \* WebSocket connections accepted in one behaviour
MaxEvents == 2       \* events published in one behaviour
MaxTimers == 2       \* setInterval calls of the subscription handlers
MaxRequests == 3     \* HTTP requests that reach the limiters
MaxAllowed == 1      \* max of the connection limiter
MaxWindows == 1      \* limiter windows that expire in one behaviour

Users == {1, 2}
Servers == {1}
NoServer == 0        \* a serverId that names no Server document
NoUser == 0          \* userId = null (disconnect called without a requester)
NoSession == 0
Procs == {1, 2}      \* request handlers that can be in flight together
SessionIds == 1..MaxCalls
UNDEF == -1          \* a field absent from the request body (undefined)

\* --------------------------------------------------------------- variables
VARIABLES
  srv,        \* Server collection: node -> document
  conn,       \* Connection collection: session id -> document
  settle,     \* session id -> state of the setTimeout callback of connect
  settleSaw,  \* history: stored status at the moment the settle callback ran
  supersedes, \* history: the session the creating connect found active
  proc,       \* request handlers in flight
  health,     \* monitorServerHealth: per-node task of the running sweep
  calls,      \* requests and cron runs started so far
  occ0,       \* history: each node's currentUsers in the initial state
  last,       \* history: the last directory operation, its input and result
  sweep,      \* updateServerLoads: the running load sweep, and cron faults
  ws,         \* utils/websocket.js: sockets, clients and connectionIntervals
  lim,        \* rate limiters: hits per limiter and key, and the last request
  ctl,        \* vpnController: the route of each handler and what it published
  maint       \* the wireguard-configs directory and the jobs of the cleanup module

\* the session and directory state, and the state of the other components
core == <<srv, conn, settle, settleSaw, supersedes, proc, health, calls, occ0, last>>
aux == <<sweep, ws, lim, ctl, maint>>

vars == <<srv, conn, settle, settleSaw, supersedes, proc, health, calls, occ0, last,
          sweep, ws, lim, ctl, maint>>

\* ------------------------------------------------------------ status sets
ActiveStatuses == {"connecting", "connected"}
NonTerminal == {"connecting", "connected", "disconnecting"}
Terminal == {"disconnected", "error", "timeout"}
Statuses == NonTerminal \cup Terminal

\* ---------------------------------------------------------- documents
NoSpeed == [upload |-> 0, download |-> 0, ping |-> 0]

NoConn ==
  [status |-> "none", userId |-> NoUser, serverId |-> NoServer,
   endTime |-> 0, duration |-> 0,
   upload |-> 0, download |-> 0, total |-> 0,
   speed |-> NoSpeed, errorCode |-> "none"]

NoStats ==
  [upload |-> UNDEF, download |-> UNDEF,
   uploadSpeed |-> UNDEF, downloadSpeed |-> UNDEF, ping |-> UNDEF]

IdleProc ==
  [pc |-> "idle", userId |-> NoUser, serverId |-> NoServer, sid |-> NoSession,
   requester |-> NoUser, inConnect |-> FALSE, seen |-> "none", cause |-> "none",
   stats |-> NoStats, doc |-> NoConn, result |-> "none"]

IdleHealth == [pc |-> "idle", healthy |-> TRUE, load |-> 0, ping |-> 0, count |-> 0]

\* a metrics object with every field absent
NoMetrics ==
  [load |-> UNDEF, ping |-> UNDEF, currentUsers |-> UNDEF, healthStatus |-> "none"]

\* no load sweep running, no task has thrown
IdleSweep ==
  [pc |-> "idle", todo |-> {}, count |-> 0, variation |-> 0,
   applied |-> {}, failed |-> {}, faults |-> 0]

Socks == 1..MaxSockets
Events == 1..MaxEvents
Timers == 1..MaxTimers
NoSock == 0          \* clients.get(userId) is undefined
NoTimer == 0         \* connectionIntervals.get(userId) is undefined

\* a WebSocket not yet accepted
NoSocket ==
  [state |-> "none", userId |-> NoUser, heartbeat |-> FALSE, inbox |-> {},
   sub |-> "idle"]

\* the module state of utils/websocket.js when the server starts
NoSockets ==
  [sock |-> [k \in Socks |-> NoSocket],
   clients |-> [u \in Users |-> NoSock],
   intervals |-> [u \in Users |-> NoTimer],
   owner |-> [t \in Timers |-> NoSock],
   scheduled |-> {},
   pubs |-> 0, to |-> NoUser]

Limiters == {"general", "connection", "user"}
Ips == {1, 2}

NoRequest == [pc |-> "none", kind |-> "none", ip |-> 0, userId |-> NoUser,
              serverId |-> NoServer]

\* every limiter's store empty, no request received
NoHits ==
  [hits |-> [l \in Limiters |-> [k \in {<<"ip", i>> : i \in Ips} \cup
                                        {<<"user", u>> : u \in Users} |-> 0]],
   allowed |-> [l \in Limiters |-> [k \in {<<"ip", i>> : i \in Ips} \cup
                                           {<<"user", u>> : u \in Users} |-> 0]],
   req |-> NoRequest, reqs |-> 0, resets |-> 0, outcome |-> "none", by |-> "none"]

\* no handler of the controller running, nothing published
NoCtl ==
  [route |-> [p \in Procs |-> "none"], silent |-> {}, ended |-> {}]

\* an empty config directory, no document naming a config file, no cleanup
\* job running
NoMaint ==
  [file |-> [s \in SessionIds |-> "none"], named |-> {}, held |-> {},
   pc |-> "idle", todo |-> {}, cur |-> NoSession, faulted |-> FALSE,
   emergency |-> "idle", found |-> {}]

NoOp ==
  [op |-> "none", node |-> NoServer, tier |-> "none", region |-> "none",
   outcome |-> "none", score |-> 0, metrics |-> NoMetrics, reported |-> {},
   won |-> FALSE]

\* request bodies of PUT /stats/:connectionId that the model submits
StatsInputs ==
  { [NoStats EXCEPT !.upload = 1],
    [NoStats EXCEPT !.upload = 1, !.download = 2,
                    !.uploadSpeed = 3, !.downloadSpeed = 0, !.ping = 4] }

\* Math.random() * 30 - 15 of calculateServerLoad: the two ends of the range
Jitter == {0 - 15, 15}
DefaultBasePing == 100

\* ------------------------------------------------------------- helpers
Max(a, b) == IF a >= b THEN a ELSE b
Min(a, b) == IF a <= b THEN a ELSE b

Exists(s) == s \in SessionIds /\ conn[s].status # "none"

\* connection ids a request can name: those handed out, and an unknown one
KnownIds == {s \in SessionIds : Exists(s)} \cup {NoSession}

\* ids are handed out in creation order; documents are not deleted here
NextId == 1 + Cardinality({s \in SessionIds : Exists(s)})

isAvailable(server) ==
  /\ server.active
  /\ server.healthStatus = "healthy"
  /\ server.currentUsers < server.maxUsers
  /\ server.load < 90

findActiveByUser(userId) ==
  {s \in SessionIds : conn[s].userId = userId /\ conn[s].status \in ActiveStatuses}

getServerConnectionsCount(serverId) ==
  Cardinality({s \in SessionIds :
                 conn[s].serverId = serverId /\ conn[s].status \in ActiveStatuses})

\* currentConnections >= server.maxUsers * 0.95
AtCapacity(count, maxUsers) == count * 100 >= maxUsers * 95

\* ------------------------------------------------------------------ Init
Init ==
  /\ srv \in [Servers -> {[active |-> TRUE, healthStatus |-> "healthy", load |-> 0,
                           ping |-> 0, currentUsers |-> 0, maxUsers |-> m] :
                          m \in 1..MaxCapacity}]
  /\ conn = [s \in SessionIds |-> NoConn]
  /\ settle = [s \in SessionIds |-> "none"]
  /\ settleSaw = [s \in SessionIds |-> "none"]
  /\ supersedes = [s \in SessionIds |-> NoSession]
  /\ proc = [p \in Procs |-> IdleProc]
  /\ health = [n \in Servers |-> IdleHealth]
  /\ calls = 0
  /\ occ0 = [n \in Servers |-> srv[n].currentUsers]
  /\ last = NoOp
  /\ sweep = IdleSweep
  /\ ws = NoSockets
  /\ lim = NoHits
  /\ ctl = NoCtl
  /\ maint = NoMaint

\* a request is taken by the first handler slot that is free
Free(p) ==
  /\ proc[p].pc = "idle"
  /\ \A q \in Procs : q < p => proc[q].pc # "idle"

\* a handler returns or throws to its caller
Finish(p, r) ==
  proc' = [proc EXCEPT ![p] = [IdleProc EXCEPT !.result = r, !.sid = proc[p].sid]]

\* ------------------------------------------------ WireGuardService.connect
\* the call of WireGuardService.connect(userId, serverId, ...)
connect(p, userId, serverId) ==
  /\ Free(p)
  /\ calls < MaxCalls
  /\ calls' = calls + 1
  /\ proc' = [proc EXCEPT ![p] =
                [IdleProc EXCEPT !.pc = "c_find", !.userId = userId, !.serverId = serverId]]
  /\ UNCHANGED <<sweep, ws, maint, occ0, last, srv, conn, settle, settleSaw, supersedes,
                 health>>

\* a caller of the service that is not behind the limiters
StartConnect(p, userId, serverId) ==
  /\ connect(p, userId, serverId)
  /\ UNCHANGED <<lim, ctl>>

\* Server.findById and the checks on the document read
ConnectFind(p) ==
  /\ proc[p].pc = "c_find"
  /\ IF proc[p].serverId \notin Servers
       THEN Finish(p, "ServerNotFound")
       ELSE IF ~srv[proc[p].serverId].active
         THEN Finish(p, "ServerNotActive")
         ELSE IF ~isAvailable(srv[proc[p].serverId])
           THEN Finish(p, "ServerNotAvailable")
           ELSE proc' = [proc EXCEPT ![p].pc = "c_active"]
  /\ UNCHANGED <<aux, occ0, last, srv, conn, settle, settleSaw, supersedes, health, calls>>

\* Connection.findActiveByUser; a session found is disconnected first
ConnectActive(p) ==
  /\ proc[p].pc = "c_active"
  /\ IF findActiveByUser(proc[p].userId) = {}
       THEN proc' = [proc EXCEPT ![p].pc = "c_count"]
       ELSE \E a \in findActiveByUser(proc[p].userId) :
              proc' = [proc EXCEPT ![p].pc = "d_find", ![p].sid = a,
                                   ![p].requester = NoUser, ![p].inConnect = TRUE]
  /\ UNCHANGED <<aux, occ0, last, srv, conn, settle, settleSaw, supersedes, health, calls>>

\* Connection.getServerConnectionsCount and the capacity check
ConnectCount(p) ==
  /\ proc[p].pc = "c_count"
  /\ IF AtCapacity(getServerConnectionsCount(proc[p].serverId),
                   srv[proc[p].serverId].maxUsers)
       THEN Finish(p, "AtCapacity")
       ELSE proc' = [proc EXCEPT ![p].pc = "c_create"]
  /\ UNCHANGED <<aux, occ0, last, srv, conn, settle, settleSaw, supersedes, health, calls>>

\* new Connection({... status: 'connecting'}) and its first save
ConnectCreate(p) ==
  /\ proc[p].pc = "c_create"
  /\ conn' = [conn EXCEPT ![NextId] =
                [NoConn EXCEPT !.status = "connecting", !.userId = proc[p].userId,
                               !.serverId = proc[p].serverId]]
  /\ supersedes' = [supersedes EXCEPT ![NextId] =
                      IF proc[p].inConnect THEN proc[p].sid ELSE NoSession]
  /\ proc' = [proc EXCEPT ![p].pc = "c_arm", ![p].sid = NextId, ![p].inConnect = FALSE]
  /\ UNCHANGED <<aux, occ0, last, srv, settle, settleSaw, health, calls>>

\* a connect that arms the settle callback first and audits afterwards
ConnectArmSettleFirst(p) ==
  /\ proc[p].pc = "c_arm"
  /\ settle' = [settle EXCEPT ![proc[p].sid] = "pending"]
  /\ \E ok \in BOOLEAN :
       IF ok
         THEN /\ conn' = conn
              /\ Finish(p, "ok")
         ELSE /\ conn' = [conn EXCEPT ![proc[p].sid].status = "error",
                                      ![proc[p].sid].errorCode = "CONNECTION_FAILED",
                                      ![proc[p].sid].endTime = @ + 1]
              /\ Finish(p, "ConnectionFailed")
  /\ UNCHANGED <<aux, occ0, last, srv, settleSaw, supersedes, health, calls>>

\* config file, second save, audit record, setTimeout, return; or the catch
\* block when one of them throws: connection.markError('CONNECTION_FAILED')
ConnectArm(p) ==
  /\ proc[p].pc = "c_arm"
  /\ \E ok \in BOOLEAN :
       IF ok
         THEN /\ settle' = [settle EXCEPT ![proc[p].sid] = "pending"]
              /\ conn' = conn
              /\ Finish(p, "ok")
         ELSE /\ settle' = settle
              /\ conn' = [conn EXCEPT ![proc[p].sid].status = "error",
                                      ![proc[p].sid].errorCode = "CONNECTION_FAILED",
                                      ![proc[p].sid].endTime = @ + 1]
              /\ Finish(p, "ConnectionFailed")
  /\ UNCHANGED <<aux, occ0, last, srv, settleSaw, supersedes, health, calls>>

\* --------------------------------------------- the setTimeout callback
\* connection.status = 'connected'; await connection.save()
SettleSave(s) ==
  /\ settle[s] = "pending"
  /\ \E ok \in BOOLEAN :
       IF ok
         THEN /\ conn' = [conn EXCEPT ![s].status = "connected"]
              /\ settleSaw' = [settleSaw EXCEPT ![s] = conn[s].status]
              /\ settle' = [settle EXCEPT ![s] = "saved"]
         ELSE /\ conn' = conn
              /\ settleSaw' = settleSaw
              /\ settle' = [settle EXCEPT ![s] = "failed"]
  /\ UNCHANGED <<aux, occ0, last, srv, supersedes, proc, health, calls>>

\* Server.findByIdAndUpdate(serverId, {$inc: {currentUsers: 1}})
SettleInc(s) ==
  /\ settle[s] = "saved"
  /\ srv' = [srv EXCEPT ![conn[s].serverId].currentUsers = @ + 1]
  /\ settle' = [settle EXCEPT ![s] = "done"]
  /\ UNCHANGED <<aux, occ0, last, conn, settleSaw, supersedes, proc, health, calls>>

\* -------------------------------------------- WireGuardService.disconnect
\* the call of WireGuardService.disconnect(connectionId, userId)
disconnect(p, userId, sid) ==
  /\ Free(p)
  /\ calls < MaxCalls
  /\ calls' = calls + 1
  /\ proc' = [proc EXCEPT ![p] =
                [IdleProc EXCEPT !.pc = "d_find", !.userId = userId,
                                 !.requester = userId, !.sid = sid]]
  /\ UNCHANGED <<sweep, ws, lim, maint, occ0, last, srv, conn, settle, settleSaw,
                 supersedes, health>>

\* a caller of the service other than the controller
StartDisconnect(p, userId, sid) ==
  /\ disconnect(p, userId, sid)
  /\ UNCHANGED ctl

\* the disconnect (or the connect that called it) throws to its caller
Throw(p, r) ==
  Finish(p, IF proc[p].inConnect THEN "ConnectionFailed" ELSE r)

\* Connection.findById, the ownership check, endTime and duration computed
\* and set on the handler's copy of the document
findById(p) ==
  /\ proc[p].pc = "d_find"
  /\ IF ~Exists(proc[p].sid)
       THEN Throw(p, "NotFound")
       ELSE IF proc[p].requester # NoUser /\ conn[proc[p].sid].userId # proc[p].requester
         THEN proc' = [proc EXCEPT ![p].pc = "d_mark", ![p].cause = "AccessDenied",
                                   ![p].seen = conn[proc[p].sid].status]
         ELSE proc' = [proc EXCEPT ![p].pc = "d_save",
                                   ![p].seen = conn[proc[p].sid].status]
  /\ UNCHANGED <<sweep, ws, lim, ctl, occ0, last, srv, conn, settle, settleSaw,
                 supersedes, health, calls>>

\* the step where the config directory is left out of the model
DisconnectFind(p) ==
  /\ findById(p)
  /\ UNCHANGED maint

\* connection.save(): status, endTime and duration as changed on the copy
DisconnectSave(p) ==
  /\ proc[p].pc = "d_save"
  /\ conn' = [conn EXCEPT
                ![proc[p].sid].status =
                   IF proc[p].seen = "disconnected" THEN @ ELSE "disconnected",
                ![proc[p].sid].endTime = @ + 1,
                ![proc[p].sid].duration = conn[proc[p].sid].endTime + 1]
  /\ proc' = [proc EXCEPT ![p].pc = "d_release"]
  /\ UNCHANGED <<aux, occ0, last, srv, settle, settleSaw, supersedes, health, calls>>

\* a release that stops at zero instead of decrementing
DisconnectReleaseFloored(p) ==
  /\ proc[p].pc = "d_release"
  /\ srv' = [srv EXCEPT ![conn[proc[p].sid].serverId].currentUsers = Max(0, @ - 1)]
  /\ proc' = [proc EXCEPT ![p].pc = "d_finish"]
  /\ UNCHANGED <<aux, occ0, last, conn, settle, settleSaw, supersedes, health, calls>>

\* Server.findByIdAndUpdate(serverId, {$inc: {currentUsers: -1}})
DisconnectRelease(p) ==
  /\ proc[p].pc = "d_release"
  /\ srv' = [srv EXCEPT ![conn[proc[p].sid].serverId].currentUsers = @ - 1]
  /\ proc' = [proc EXCEPT ![p].pc = "d_finish"]
  /\ UNCHANGED <<aux, occ0, last, conn, settle, settleSaw, supersedes, health, calls>>

\* config file unlinked, AuditLog.log, return; AuditLog.log may throw
DisconnectFinish(p) ==
  /\ proc[p].pc = "d_finish"
  /\ \E ok \in BOOLEAN :
       IF ok
         THEN IF proc[p].inConnect
                THEN proc' = [proc EXCEPT ![p].pc = "c_count", ![p].seen = "none"]
                ELSE Finish(p, "ok")
         ELSE proc' = [proc EXCEPT ![p].pc = "d_mark", ![p].cause = "DisconnectFailed"]
  /\ UNCHANGED <<aux, occ0, last, srv, conn, settle, settleSaw, supersedes, health, calls>>

\* status on the handler's copy when the catch block is entered
CopyStatus(p) ==
  IF proc[p].cause = "AccessDenied" THEN proc[p].seen ELSE "disconnected"

\* the catch block: connection.markError('DISCONNECT_FAILED', ...), rethrow
DisconnectMark(p) ==
  /\ proc[p].pc = "d_mark"
  /\ conn' = [conn EXCEPT
                ![proc[p].sid].status = IF CopyStatus(p) = "error" THEN @ ELSE "error",
                ![proc[p].sid].errorCode = "DISCONNECT_FAILED",
                ![proc[p].sid].endTime = @ + 1]
  /\ Throw(p, proc[p].cause)
  /\ UNCHANGED <<aux, occ0, last, srv, settle, settleSaw, supersedes, health, calls>>

\* No timer other than the settle callback is registered for a session and
\* no code assigns the status 'timeout': when the connect deadline of a
\* session whose settle callback threw goes by, nothing runs.
DeadlinePasses(s) ==
  /\ settle[s] = "failed"
  /\ settle' = [settle EXCEPT ![s] = "expired"]
  /\ UNCHANGED <<aux, occ0, last, srv, conn, settleSaw, supersedes, proc, health, calls>>

\* ------------------------------------------- WireGuardService.updateStats
StartUpdateStats(p, userId, sid, stats) ==
  /\ Free(p)
  /\ calls < MaxCalls
  /\ calls' = calls + 1
  /\ proc' = [proc EXCEPT ![p] =
                [IdleProc EXCEPT !.pc = "u_find", !.userId = userId,
                                 !.sid = sid, !.stats = stats]]
  /\ UNCHANGED <<aux, occ0, last, srv, conn, settle, settleSaw, supersedes, health>>

SpeedGiven(stats) ==
  stats.uploadSpeed # UNDEF \/ stats.downloadSpeed # UNDEF \/ stats.ping # UNDEF

DataGiven(stats) == stats.upload # UNDEF \/ stats.download # UNDEF

\* x || d of JavaScript on an optional number
OrElse(x, d) == IF x = UNDEF \/ x = 0 THEN d ELSE x

StatsAllowedAnyActive(status) == status \in ActiveStatuses

\* the status check of updateStats
StatsAllowed(status) == status = "connected"

\* an updateStats that looks at the status before it looks at the owner
UpdateFindStatusFirst(p) ==
  /\ proc[p].pc = "u_find"
  /\ IF ~Exists(proc[p].sid)
       THEN Finish(p, "NotFound")
       ELSE IF ~StatsAllowed(conn[proc[p].sid].status)
         THEN Finish(p, "NotActive")
         ELSE IF conn[proc[p].sid].userId # proc[p].userId
           THEN Finish(p, "AccessDenied")
           ELSE IF SpeedGiven(proc[p].stats)
             THEN proc' = [proc EXCEPT ![p].pc = "u_speed", ![p].doc = conn[proc[p].sid]]
             ELSE IF DataGiven(proc[p].stats)
               THEN proc' = [proc EXCEPT ![p].pc = "u_data", ![p].doc = conn[proc[p].sid]]
               ELSE Finish(p, "ok")
  /\ UNCHANGED <<aux, occ0, last, srv, conn, settle, settleSaw, supersedes, health, calls>>

\* Connection.findById and the three checks
UpdateFind(p) ==
  /\ proc[p].pc = "u_find"
  /\ IF ~Exists(proc[p].sid)
       THEN Finish(p, "NotFound")
       ELSE IF conn[proc[p].sid].userId # proc[p].userId
         THEN Finish(p, "AccessDenied")
         ELSE IF ~StatsAllowed(conn[proc[p].sid].status)
           THEN Finish(p, "NotActive")
           ELSE IF SpeedGiven(proc[p].stats)
             THEN proc' = [proc EXCEPT ![p].pc = "u_speed", ![p].doc = conn[proc[p].sid]]
             ELSE IF DataGiven(proc[p].stats)
               THEN proc' = [proc EXCEPT ![p].pc = "u_data", ![p].doc = conn[proc[p].sid]]
               ELSE Finish(p, "ok")
  /\ UNCHANGED <<aux, occ0, last, srv, conn, settle, settleSaw, supersedes, health, calls>>

\* connection.updateSpeed(...): the speed paths changed on the copy are saved
UpdateSpeed(p) ==
  /\ proc[p].pc = "u_speed"
  /\ LET d == proc[p].doc
         st == proc[p].stats
         new == [upload |-> OrElse(st.uploadSpeed, d.speed.upload),
                 download |-> OrElse(st.downloadSpeed, d.speed.download),
                 ping |-> OrElse(st.ping, d.speed.ping)]
         old == conn[proc[p].sid].speed
     IN /\ conn' = [conn EXCEPT ![proc[p].sid].speed =
                      [upload |-> IF new.upload # d.speed.upload
                                    THEN new.upload ELSE old.upload,
                       download |-> IF new.download # d.speed.download
                                      THEN new.download ELSE old.download,
                       ping |-> IF new.ping # d.speed.ping THEN new.ping ELSE old.ping]]
        /\ IF DataGiven(st)
             THEN proc' = [proc EXCEPT ![p].pc = "u_data", ![p].doc.speed = new]
             ELSE Finish(p, "ok")
  /\ UNCHANGED <<aux, occ0, last, srv, settle, settleSaw, supersedes, health, calls>>

\* connection.addDataTransfer(upload || 0, download || 0): += on the copy,
\* the pre-save hook recomputes total, the changed paths are saved
UpdateData(p) ==
  /\ proc[p].pc = "u_data"
  /\ LET d == proc[p].doc
         up == OrElse(proc[p].stats.upload, 0)
         down == OrElse(proc[p].stats.download, 0)
         old == conn[proc[p].sid]
     IN conn' = [conn EXCEPT
                   ![proc[p].sid].upload = IF up # 0 THEN d.upload + up ELSE old.upload,
                   ![proc[p].sid].download =
                      IF down # 0 THEN d.download + down ELSE old.download,
                   ![proc[p].sid].total =
                      IF (up # 0 \/ down # 0) /\ d.upload + up + d.download + down # d.total
                        THEN d.upload + up + d.download + down ELSE old.total]
  /\ Finish(p, "ok")
  /\ UNCHANGED <<aux, occ0, last, srv, settle, settleSaw, supersedes, health, calls>>

\* ---------------------------------------- ServerService.updateServerMetrics
\* the metrics stored as they are given
updateServerMetricsUnclamped(server, metrics) ==
  [server EXCEPT
     !.load = IF metrics.load # UNDEF THEN metrics.load ELSE @,
     !.ping = IF metrics.ping # UNDEF THEN metrics.ping ELSE @,
     !.currentUsers = IF metrics.currentUsers # UNDEF THEN metrics.currentUsers ELSE @,
     !.healthStatus = IF metrics.healthStatus # "none" THEN metrics.healthStatus ELSE @]

\* metrics fields that are absent are UNDEF (healthStatus: "none")
updateServerMetrics(server, metrics) ==
  [server EXCEPT
     !.load = IF metrics.load # UNDEF THEN Max(0, Min(100, metrics.load)) ELSE @,
     !.ping = IF metrics.ping # UNDEF THEN Max(0, metrics.ping) ELSE @,
     !.currentUsers = IF metrics.currentUsers # UNDEF
                        THEN Max(0, Min(server.maxUsers, metrics.currentUsers)) ELSE @,
     !.healthStatus = IF metrics.healthStatus # "none" THEN metrics.healthStatus ELSE @]

\* ------------------------------------------------- monitorServerHealth
\* simulateHealthCheck: server.load < 95 on the document read by Server.find
simulateHealthCheck(server) == server.load < 95

calculateServerLoad(server, variation) ==
  Max(0, Min(100, ((server.currentUsers * 100) \div server.maxUsers) + variation))

\* the cron tick: Server.find({active: true}), then one task per server, each
\* run up to its first database read; simulateHealthCheck may throw
StartHealth ==
  /\ \A n \in DOMAIN srv : health[n].pc = "idle"
  /\ calls < MaxCalls
  /\ calls' = calls + 1
  /\ \E thrown \in [DOMAIN srv -> BOOLEAN], variation \in [DOMAIN srv -> Jitter] :
       health' = [n \in DOMAIN srv |->
                    IF ~srv[n].active THEN IdleHealth
                    ELSE IF thrown[n] THEN [IdleHealth EXCEPT !.pc = "h_fail"]
                    ELSE [pc |-> "h_count",
                          healthy |-> simulateHealthCheck(srv[n]),
                          load |-> calculateServerLoad(srv[n], variation[n]),
                          ping |-> DefaultBasePing,
                          count |-> 0]]
  /\ UNCHANGED <<aux, occ0, last, srv, conn, settle, settleSaw, supersedes, proc>>

\* currentUsers: await Connection.getServerConnectionsCount(server._id)
HealthCount(n) ==
  /\ health[n].pc = "h_count"
  /\ health' = [health EXCEPT ![n].pc = "h_write",
                              ![n].count = getServerConnectionsCount(n)]
  /\ UNCHANGED <<aux, occ0, last, srv, conn, settle, settleSaw, supersedes, proc, calls>>

\* ServerService.updateServerMetrics(server._id, {load, ping, healthStatus, currentUsers})
HealthWrite(n) ==
  /\ health[n].pc = "h_write"
  /\ srv' = [srv EXCEPT ![n] =
               updateServerMetrics(srv[n],
                 [load |-> health[n].load, ping |-> health[n].ping,
                  healthStatus |-> IF health[n].healthy THEN "healthy" ELSE "offline",
                  currentUsers |-> health[n].count])]
  /\ health' = [health EXCEPT ![n] = IdleHealth]
  /\ UNCHANGED <<aux, occ0, last, conn, settle, settleSaw, supersedes, proc, calls>>

\* the catch block: updateServerMetrics(server._id, {healthStatus: 'offline', load: 100})
HealthFail(n) ==
  /\ health[n].pc = "h_fail"
  /\ srv' = [srv EXCEPT ![n] =
               updateServerMetrics(srv[n],
                 [load |-> 100, ping |-> UNDEF, healthStatus |-> "offline",
                  currentUsers |-> UNDEF])]
  /\ health' = [health EXCEPT ![n] = IdleHealth]
  /\ UNCHANGED <<aux, occ0, last, conn, settle, settleSaw, supersedes, proc, calls>>

Next ==
  \/ \E p \in Procs, u \in Users, n \in Servers \cup {NoServer} : StartConnect(p, u, n)
  \/ \E p \in Procs : ConnectFind(p)
  \/ \E p \in Procs : ConnectActive(p)
  \/ \E p \in Procs : ConnectCount(p)
  \/ \E p \in Procs : ConnectCreate(p)
  \/ \E p \in Procs : ConnectArm(p)
  \/ \E p \in Procs, u \in Users, s \in KnownIds : StartDisconnect(p, u, s)
  \/ \E p \in Procs : DisconnectFind(p)
  \/ \E p \in Procs : DisconnectSave(p)
  \/ \E p \in Procs : DisconnectRelease(p)
  \/ \E p \in Procs : DisconnectFinish(p)
  \/ \E p \in Procs : DisconnectMark(p)
  \/ \E p \in Procs, u \in Users, s \in KnownIds, st \in StatsInputs :
       StartUpdateStats(p, u, s, st)
  \/ \E p \in Procs : UpdateFind(p)
  \/ \E p \in Procs : UpdateSpeed(p)
  \/ \E p \in Procs : UpdateData(p)
  \/ StartHealth
  \/ \E n \in Servers : HealthCount(n)
  \/ \E n \in Servers : HealthWrite(n)
  \/ \E n \in Servers : HealthFail(n)
  \/ \E s \in SessionIds : SettleSave(s)
  \/ \E s \in SessionIds : SettleInc(s)
  \/ \E s \in SessionIds : DeadlinePasses(s)

\* ------------------------------------------- ServerService.getOptimalServer
\* The selection is modelled on catalogues of two nodes whose documents also
\* carry the fields the selection query reads.  The comparison
\* currentUsers: {$lt: {$multiply: ['$maxUsers', 0.9]}} is taken as
\* currentUsers < 0.9 x maxUsers.
SelNodes == {1, 2}
SelLoads == {10, 50, 85}
SelPings == {40, 300}
Countries == {"US", "DE"}
Tiers == {"free", "premium"}
Regions == {"none", "us", "DE"}   \* preferredCountry as the client sends it

\* active flag, health status and premium flag of a catalogue entry: a
\* regular node, a premium node, and a node failing one condition of the query
Conditions ==
  {<<TRUE, "healthy", FALSE>>, <<TRUE, "healthy", TRUE>>, <<TRUE, "degraded", FALSE>>,
   <<TRUE, "offline", FALSE>>, <<FALSE, "healthy", FALSE>>}

\* preferredCountry.toUpperCase()
toUpperCase(c) == CASE c = "us" -> "US" [] c = "de" -> "DE" [] OTHER -> c

\* a query that leaves out the premium condition
CandidatesAnyTier(dir, userSubscription) ==
  {n \in DOMAIN dir :
     /\ dir[n].active
     /\ dir[n].healthStatus = "healthy"
     /\ dir[n].currentUsers * 10 < dir[n].maxUsers * 9
     /\ dir[n].load < 80}

\* the query object of getOptimalServer
Candidates(dir, userSubscription) ==
  {n \in DOMAIN dir :
     /\ dir[n].active
     /\ dir[n].healthStatus = "healthy"
     /\ dir[n].currentUsers * 10 < dir[n].maxUsers * 9
     /\ dir[n].load < 80
     /\ (userSubscription = "free" => ~dir[n].isPremium)}

\* .sort({load: 1, ping: 1, currentUsers: 1}): a is not after b
SortsBefore(a, b) ==
  \/ a.load < b.load
  \/ a.load = b.load /\ a.ping < b.ping
  \/ a.load = b.load /\ a.ping = b.ping /\ a.currentUsers <= b.currentUsers

\* .sort(...).limit(1) / findOne(...).sort(...): the documents that can come
\* first; the order of documents equal in all three keys is the store's
First(dir, set) == {n \in set : \A m \in set : SortsBefore(dir[n], dir[m])}

calculateServerScoreLoadAdds(server) ==
  LET loadScore == Max(0, server.load)
      pingScore2 == IF server.ping > 0 THEN Max(0, 200 - server.ping) ELSE 100
      capacity == Max(0, 100 * server.maxUsers - 100 * server.currentUsers)
      n == 4 * loadScore * server.maxUsers + 2 * pingScore2 * server.maxUsers
             + 2 * capacity
      d == 10 * server.maxUsers
  IN (2 * n + d) \div (2 * d)

\* calculateServerScore in exact arithmetic: pingScore2 is pingScore doubled,
\* capacity is capacityScore times maxUsers, n / d the weighted sum, and
\* Math.round(x) is floor(x + 1/2)
calculateServerScore(server) ==
  LET loadScore == Max(0, 100 - server.load)
      pingScore2 == IF server.ping > 0 THEN Max(0, 200 - server.ping) ELSE 100
      capacity == Max(0, 100 * server.maxUsers - 100 * server.currentUsers)
      n == 4 * loadScore * server.maxUsers + 2 * pingScore2 * server.maxUsers
             + 2 * capacity
      d == 10 * server.maxUsers
  IN (2 * n + d) \div (2 * d)

getOptimalServerGlobal(dir, userSubscription, preferredCountry) ==
  First(dir, Candidates(dir, userSubscription))

\* the nodes getOptimalServer can return; none: 'No optimal server found'
getOptimalServer(dir, userSubscription, preferredCountry) ==
  LET query == Candidates(dir, userSubscription)
      countryServers ==
        IF preferredCountry # "none"
          THEN First(dir, {n \in query :
                             dir[n].countryCode = toUpperCase(preferredCountry)})
          ELSE {}
  IN IF countryServers # {} THEN countryServers ELSE First(dir, query)

InitSelect ==
  /\ srv \in [SelNodes ->
               {[active |-> c[1], healthStatus |-> c[2], load |-> l, ping |-> g,
                 currentUsers |-> k, maxUsers |-> MaxCapacity,
                 isPremium |-> c[3], countryCode |-> cc] :
                  c \in Conditions, l \in SelLoads, g \in SelPings,
                  k \in 0..MaxCapacity, cc \in Countries}]
  /\ conn = [s \in SessionIds |-> NoConn]
  /\ settle = [s \in SessionIds |-> "none"]
  /\ settleSaw = [s \in SessionIds |-> "none"]
  /\ supersedes = [s \in SessionIds |-> NoSession]
  /\ proc = [p \in Procs |-> IdleProc]
  /\ health = [n \in Servers |-> IdleHealth]
  /\ calls = 0
  /\ occ0 = [n \in SelNodes |-> srv[n].currentUsers]
  /\ last = NoOp
  /\ sweep = IdleSweep
  /\ ws = NoSockets
  /\ lim = NoHits
  /\ ctl = NoCtl
  /\ maint = NoMaint

\* GET /optimal and quickConnect: getOptimalServer(user.subscription, preferredCountry)
GetOptimal(userSubscription, preferredCountry) ==
  /\ LET found == getOptimalServer(srv, userSubscription, preferredCountry)
     IN IF found = {}
          THEN last' = [NoOp EXCEPT !.op = "select", !.tier = userSubscription,
                                    !.region = preferredCountry,
                                    !.outcome = "NoOptimalServer"]
          ELSE \E n \in found :
                 last' = [NoOp EXCEPT !.op = "select", !.tier = userSubscription,
                                      !.region = preferredCountry, !.outcome = "ok",
                                      !.node = n,
                                      !.score = calculateServerScore(srv[n])]
  /\ UNCHANGED <<aux, srv, conn, settle, settleSaw, supersedes, proc, health, calls, occ0>>

\* updateServerMetrics(server._id, {load}) with a load below the stored one
LoadDrops(n, load) ==
  /\ load < srv[n].load
  /\ srv' = [srv EXCEPT ![n] = updateServerMetrics(srv[n], [NoMetrics EXCEPT !.load = load])]
  /\ last' = [NoOp EXCEPT !.op = "decrease", !.node = n,
                          !.won = \E t \in Tiers, r \in Regions :
                                     n \in getOptimalServer(srv, t, r)]
  /\ UNCHANGED <<aux, conn, settle, settleSaw, supersedes, proc, health, calls, occ0>>

NextSelect ==
  \/ \E t \in Tiers, r \in Regions : GetOptimal(t, r)
  \/ \E n \in SelNodes, l \in SelLoads : LoadDrops(n, l)

\* ------------------------ updateServerMetrics and checkOverloadedServers
\* metrics objects a caller can pass: fields absent, in range, below and above
MetricsInputs ==
  [load : {UNDEF, 0 - 5, 37, 250},
   ping : {UNDEF, 0 - 7, 40},
   currentUsers : {UNDEF, 0 - 3, 1, MaxCapacity + 1},
   healthStatus : {"none", "healthy", "degraded", "offline"}]

\* a catalogue entry, active or not, with or without a session that connect
\* has created on it
InitMetrics ==
  /\ srv \in [Servers -> {[active |-> a, healthStatus |-> "healthy", load |-> 0,
                           ping |-> 0, currentUsers |-> 0, maxUsers |-> m] :
                          a \in BOOLEAN, m \in 1..MaxCapacity}]
  /\ \E held \in BOOLEAN :
       /\ conn = [s \in SessionIds |->
                    IF held /\ s = 1
                      THEN [NoConn EXCEPT !.status = "connecting", !.userId = 1,
                                          !.serverId = 1]
                      ELSE NoConn]
       /\ settle = [s \in SessionIds |-> IF held /\ s = 1 THEN "pending" ELSE "none"]
  /\ settleSaw = [s \in SessionIds |-> "none"]
  /\ supersedes = [s \in SessionIds |-> NoSession]
  /\ proc = [p \in Procs |-> IdleProc]
  /\ health = [n \in Servers |-> IdleHealth]
  /\ calls = 0
  /\ occ0 = [n \in Servers |-> srv[n].currentUsers]
  /\ last = NoOp
  /\ sweep = IdleSweep
  /\ ws = NoSockets
  /\ lim = NoHits
  /\ ctl = NoCtl
  /\ maint = NoMaint

\* ServerService.updateServerMetrics(serverId, metrics)
ApplyMetrics(n, metrics) ==
  /\ srv' = [srv EXCEPT ![n] = updateServerMetrics(srv[n], metrics)]
  /\ last' = [NoOp EXCEPT !.op = "metrics", !.node = n, !.metrics = metrics]
  /\ UNCHANGED <<aux, conn, settle, settleSaw, supersedes, proc, health, calls, occ0>>

\* the documents matched by the query of checkOverloadedServers
Overloaded(dir) ==
  {n \in DOMAIN dir :
     /\ dir[n].active
     /\ \/ dir[n].load > 90
        \/ dir[n].currentUsers * 100 > dir[n].maxUsers * 95}

\* a sweep that also marks the nodes it reports
CheckOverloadedMarking ==
  /\ last' = [NoOp EXCEPT !.op = "overload", !.reported = Overloaded(srv)]
  /\ srv' = [n \in DOMAIN srv |->
               IF n \in Overloaded(srv)
                 THEN [srv[n] EXCEPT !.healthStatus = "degraded"] ELSE srv[n]]
  /\ UNCHANGED <<aux, conn, settle, settleSaw, supersedes, proc, health, calls, occ0>>

\* checkOverloadedServers: Server.find(...) and console.warn of what it found
CheckOverloaded ==
  /\ last' = [NoOp EXCEPT !.op = "overload", !.reported = Overloaded(srv)]
  /\ UNCHANGED <<aux, srv, conn, settle, settleSaw, supersedes, proc, health, calls, occ0>>

NextMetrics ==
  \/ \E n \in Servers, metrics \in MetricsInputs : ApplyMetrics(n, metrics)
  \/ CheckOverloaded

\* ------------------------------------------------------ updateServerLoads
\* Math.random() * 20 - 10: the two ends of the range
LoadJitter == {0 - 10, 10}

CronTasks == {"health", "load", "overload"}

\* catalogues of two nodes, each active or not, with no sessions
InitSweeps ==
  /\ srv \in [SelNodes -> {[active |-> a, healthStatus |-> "healthy", load |-> 0,
                            ping |-> 0, currentUsers |-> 0, maxUsers |-> m] :
                           a \in BOOLEAN, m \in 1..MaxCapacity}]
  /\ conn = [s \in SessionIds |-> NoConn]
  /\ settle = [s \in SessionIds |-> "none"]
  /\ settleSaw = [s \in SessionIds |-> "none"]
  /\ supersedes = [s \in SessionIds |-> NoSession]
  /\ proc = [p \in Procs |-> IdleProc]
  /\ health = [n \in SelNodes |-> IdleHealth]
  /\ calls = 0
  /\ occ0 = [n \in SelNodes |-> srv[n].currentUsers]
  /\ last = NoOp
  /\ sweep = IdleSweep
  /\ ws = NoSockets
  /\ lim = NoHits
  /\ ctl = NoCtl
  /\ maint = NoMaint

\* a cron tick whose task rejects at its Server.find: the callback's catch
\* block logs the error and the callback returns
CronFault(task) ==
  /\ calls < MaxCalls
  /\ calls' = calls + 1
  /\ task = "health" => \A n \in DOMAIN srv : health[n].pc = "idle"
  /\ task = "load" => sweep.pc = "idle"
  /\ sweep' = [sweep EXCEPT !.faults = @ + 1]
  /\ UNCHANGED <<srv, conn, settle, settleSaw, supersedes, proc, health, occ0, last,
                 ws, lim, ctl, maint>>

\* the cron tick of updateServerLoads: Server.find({active: true})
StartLoads ==
  /\ sweep.pc = "idle"
  /\ calls < MaxCalls
  /\ calls' = calls + 1
  /\ LET found == {n \in DOMAIN srv : srv[n].active}
     IN sweep' = [sweep EXCEPT !.pc = IF found = {} THEN "idle" ELSE "l_count",
                               !.todo = found, !.applied = {}, !.failed = {}]
  /\ UNCHANGED <<srv, conn, settle, settleSaw, supersedes, proc, health, occ0, last,
                 ws, lim, ctl, maint>>

\* the server the for loop is at: the documents in the order of the store
LoadCurrent == CHOOSE n \in sweep.todo : \A m \in sweep.todo : n <= m

\* an exception in the loop body that leaves the loop
LoadFailedAborts(n) ==
  [sweep EXCEPT !.failed = @ \cup {n}, !.todo = {}, !.pc = "idle", !.faults = @ + 1]

\* the catch block inside the loop body: console.error, then the next server
LoadFailed(n) ==
  [sweep EXCEPT !.failed = @ \cup {n}, !.todo = @ \ {n},
                !.pc = IF sweep.todo \ {n} = {} THEN "idle" ELSE "l_count"]

\* await Connection.getServerConnectionsCount(server._id), utilization and
\* the random variation
LoadCount ==
  /\ sweep.pc = "l_count"
  /\ \E ok \in BOOLEAN :
       IF ok
         THEN \E v \in LoadJitter :
                sweep' = [sweep EXCEPT !.pc = "l_write",
                                       !.count = getServerConnectionsCount(LoadCurrent),
                                       !.variation = v]
         ELSE sweep' = LoadFailed(LoadCurrent)
  /\ UNCHANGED <<core, ws, lim, ctl, maint>>

\* await ServerService.updateServerMetrics(server._id, {load, currentUsers})
LoadWrite ==
  /\ sweep.pc = "l_write"
  /\ \E ok \in BOOLEAN :
       LET n == LoadCurrent
           utilization == (sweep.count * 100) \div srv[n].maxUsers
           simulatedLoad == Max(0, Min(100, utilization + sweep.variation))
       IN IF ok
            THEN /\ srv' = [srv EXCEPT ![n] =
                              updateServerMetrics(srv[n],
                                [NoMetrics EXCEPT !.load = simulatedLoad,
                                                  !.currentUsers = sweep.count])]
                 /\ sweep' = [sweep EXCEPT
                                !.applied = @ \cup {n}, !.todo = @ \ {n},
                                !.pc = IF sweep.todo \ {n} = {} THEN "idle" ELSE "l_count"]
            ELSE /\ srv' = srv
                 /\ sweep' = LoadFailed(n)
  /\ UNCHANGED <<conn, settle, settleSaw, supersedes, proc, health, calls, occ0, last,
                 ws, lim, ctl, maint>>

NextSweeps ==
  \/ StartHealth
  \/ \E n \in SelNodes : HealthCount(n)
  \/ \E n \in SelNodes : HealthWrite(n)
  \/ \E n \in SelNodes : HealthFail(n)
  \/ StartLoads
  \/ LoadCount
  \/ LoadWrite
  \/ CheckOverloaded
  \/ \E task \in CronTasks : CronFault(task)

\* ------------------------------------------------------------- websocket
\* the clients Map and the connectionIntervals Map are empty when the module
\* is loaded
InitSockets ==
  /\ Init
  /\ ws = NoSockets

\* readyState === OPEN
IsOpen(k) == k # NoSock /\ ws.sock[k].state = "open"

\* a sender that looks only at the registry entry
DeliverableRegistered(k) == k # NoSock

\* client && client.readyState === client.OPEN
Deliverable(k) == IsOpen(k)

\* wss.on('connection'): the next socket object; with a valid token it is
\* stored under the user's id, its handlers are attached and its heartbeat
\* interval is started; without one it is closed and nothing is attached
Accept(u) ==
  /\ \E k \in Socks :
       /\ ws.sock[k].state = "none"
       /\ \A j \in Socks : j < k => ws.sock[j].state # "none"
       /\ \E authenticated \in BOOLEAN :
            IF authenticated
              THEN ws' = [ws EXCEPT !.sock[k] = [NoSocket EXCEPT !.state = "open",
                                                                  !.userId = u,
                                                                  !.heartbeat = TRUE],
                                    !.clients[u] = k]
              ELSE ws' = [ws EXCEPT !.sock[k] = [NoSocket EXCEPT !.state = "closing"]]
  /\ UNCHANGED <<core, sweep, lim, ctl, maint>>

\* the connectionIntervals entry of a user is cleared and removed
stopStatsUpdates(w, u) ==
  IF w.intervals[u] # NoTimer
    THEN [w EXCEPT !.scheduled = @ \ {w.intervals[u]}, !.intervals[u] = NoTimer]
    ELSE w

\* setInterval, then the previous interval of the user is cleared and the
\* new one stored
StoreInterval(w, u, k, t) ==
  [w EXCEPT !.scheduled = (@ \ {w.intervals[u]}) \cup {t},
            !.owner[t] = k,
            !.intervals[u] = t]

\* the interval object the next setInterval call returns
FreshTimer(t) ==
  /\ t \in Timers
  /\ ws.owner[t] = NoSock
  /\ \A j \in Timers : j < t => ws.owner[j] # NoSock

\* message subscribe_connection: handleConnectionSubscription up to its
\* await Connection.findById
SubscribeConnection(k) ==
  /\ ws.sock[k].state = "open"
  /\ ws.sock[k].userId # NoUser
  /\ ws.sock[k].sub = "idle"
  /\ ws' = [ws EXCEPT !.sock[k].sub = "finding"]
  /\ UNCHANGED <<core, sweep, lim, ctl, maint>>

\* handleConnectionSubscription after the await: a connection of the user
\* starts the two-second interval and stores it; anything else is answered
\* with sendError
SubscribeFound(k) ==
  /\ ws.sock[k].sub = "finding"
  /\ \E owned \in BOOLEAN :
       IF owned
         THEN \E t \in Timers :
                /\ FreshTimer(t)
                /\ ws' = [StoreInterval(ws, ws.sock[k].userId, k, t)
                            EXCEPT !.sock[k].sub = "idle"]
         ELSE ws' = [ws EXCEPT !.sock[k].sub = "idle"]
  /\ UNCHANGED <<core, sweep, lim, ctl, maint>>

\* message subscribe_stats: startStatsUpdates
SubscribeStats(k) ==
  /\ ws.sock[k].state = "open"
  /\ ws.sock[k].userId # NoUser
  /\ \E t \in Timers :
       /\ FreshTimer(t)
       /\ ws' = StoreInterval(ws, ws.sock[k].userId, k, t)
  /\ UNCHANGED <<core, sweep, lim, ctl, maint>>

\* message unsubscribe_stats
UnsubscribeStats(k) ==
  /\ ws.sock[k].state = "open"
  /\ ws.sock[k].userId # NoUser
  /\ ws' = stopStatsUpdates(ws, ws.sock[k].userId)
  /\ UNCHANGED <<core, sweep, lim, ctl, maint>>

\* a tick of a connection or stats interval: an update is sent while the
\* socket is open, otherwise the interval clears itself
IntervalTick(t) ==
  /\ t \in ws.scheduled
  /\ ws' = IF IsOpen(ws.owner[t]) THEN ws ELSE [ws EXCEPT !.scheduled = @ \ {t}]
  /\ UNCHANGED <<core, sweep, lim, ctl, maint>>

\* a tick of the heartbeat interval
HeartbeatTick(k) ==
  /\ ws.sock[k].heartbeat
  /\ ws' = IF IsOpen(k) THEN ws ELSE [ws EXCEPT !.sock[k].heartbeat = FALSE]
  /\ UNCHANGED <<core, sweep, lim, ctl, maint>>

\* the closing handshake starts: readyState is CLOSING
BeginClose(k) ==
  /\ ws.sock[k].state = "open"
  /\ ws' = [ws EXCEPT !.sock[k].state = "closing"]
  /\ UNCHANGED <<core, sweep, lim, ctl, maint>>

\* ws.on('error'): the registry entry of the user is deleted and the user's
\* interval stopped; the socket is then closing
SocketError(k) ==
  /\ ws.sock[k].state = "open"
  /\ ws.sock[k].userId # NoUser
  /\ ws' = [stopStatsUpdates([ws EXCEPT !.clients[ws.sock[k].userId] = NoSock],
                             ws.sock[k].userId)
              EXCEPT !.sock[k].state = "closing"]
  /\ UNCHANGED <<core, sweep, lim, ctl, maint>>

\* the 'close' event: both close handlers of an authenticated socket
Closed(k) ==
  /\ ws.sock[k].state = "closing"
  /\ ws' = IF ws.sock[k].userId = NoUser
             THEN [ws EXCEPT !.sock[k].state = "closed"]
             ELSE [stopStatsUpdates([ws EXCEPT !.clients[ws.sock[k].userId] = NoSock],
                                    ws.sock[k].userId)
                     EXCEPT !.sock[k].state = "closed", !.sock[k].heartbeat = FALSE]
  /\ UNCHANGED <<core, sweep, lim, ctl, maint>>

\* broadcastToUser(userId, data)
broadcastToUser(u) ==
  /\ ws.pubs < MaxEvents
  /\ LET client == ws.clients[u]
         w == [ws EXCEPT !.pubs = @ + 1, !.to = u]
     IN ws' = IF Deliverable(client)
                THEN [w EXCEPT !.sock[client].inbox = @ \cup {ws.pubs + 1}]
                ELSE w
  /\ UNCHANGED <<core, sweep, lim, ctl, maint>>

\* broadcastToAll(data)
broadcastToAll ==
  /\ ws.pubs < MaxEvents
  /\ ws' = [ws EXCEPT
              !.pubs = @ + 1,
              !.to = NoUser,
              !.sock = [k \in Socks |->
                          IF (\E u \in Users : ws.clients[u] = k) /\ Deliverable(k)
                            THEN [ws.sock[k] EXCEPT !.inbox = @ \cup {ws.pubs + 1}]
                            ELSE ws.sock[k]]]
  /\ UNCHANGED <<core, sweep, lim, ctl, maint>>

NextSockets ==
  \/ \E u \in Users : Accept(u)
  \/ \E k \in Socks : SubscribeConnection(k)
  \/ \E k \in Socks : SubscribeFound(k)
  \/ \E k \in Socks : SubscribeStats(k)
  \/ \E k \in Socks : UnsubscribeStats(k)
  \/ \E t \in Timers : IntervalTick(t)
  \/ \E k \in Socks : HeartbeatTick(k)
  \/ \E k \in Socks : BeginClose(k)
  \/ \E k \in Socks : SocketError(k)
  \/ \E k \in Socks : Closed(k)
  \/ \E u \in Users : broadcastToUser(u)
  \/ broadcastToAll

\* -------------------------------------------------------------- limiters
\* the middleware chains of a request: app.use(generalLimiter), then
\* router.use(authenticate), then the route's own limiter and its controller
Keys == {<<"ip", i>> : i \in Ips} \cup {<<"user", u>> : u \in Users}
Kinds == {"connect", "other"}

InitAdmission ==
  /\ Init
  /\ \A n \in Servers : srv[n].maxUsers = MaxCapacity

\* max of each limiter, scaled down: the connection limiter (10 a minute) is
\* the strictest, the general limiter (100 a window) the most generous
limitMax(l) ==
  CASE l = "connection" -> MaxAllowed
    [] l = "user" -> MaxAllowed + 1
    [] l = "general" -> MaxAllowed + 2

\* keyGenerator || ((req) => req.ip); the user limiter's generator is
\* req.user?._id?.toString() || req.ip, behind authenticate
keyGenerator(l, req) ==
  IF l = "user" /\ req.userId # NoUser THEN <<"user", req.userId>> ELSE <<"ip", req.ip>>

\* one store for every limiter
StoreOfShared(l) == "general"

\* each createLimiter call makes its own rateLimit instance, each instance
\* counts in a store of its own
StoreOf(l) == l

\* the limiter of the route
RouteLimiter(kind) == IF kind = "connect" THEN "connection" ELSE "user"

\* a request arrives at app.use(generalLimiter)
Receive(kind, ip, u) ==
  /\ lim.req.pc = "none"
  /\ lim.reqs < MaxRequests
  /\ lim' = [lim EXCEPT !.req = [pc |-> "general", kind |-> kind, ip |-> ip,
                                 userId |-> u, serverId |-> 1],
                        !.reqs = @ + 1,
                        !.outcome = "none"]
  /\ UNCHANGED <<core, sweep, ws, ctl, maint>>

\* the rateLimit middleware of limiter l (express-rate-limit called with
\* windowMs, max and keyGenerator): the hit is counted under the request's
\* key; up to max hits of a window go on to the next middleware, further
\* ones go to the handler option
Limit(l) ==
  /\ lim.req.pc = l
  /\ LET key == keyGenerator(l, lim.req)
         store == StoreOf(l)
         hit == lim.hits[store][key] + 1
     IN IF hit <= limitMax(l)
          THEN lim' = [lim EXCEPT !.hits[store][key] = hit,
                                  !.allowed[l][key] = @ + 1,
                                  !.req.pc = IF l = "general" THEN "authenticate"
                                                               ELSE "controller"]
          ELSE lim' = [lim EXCEPT !.hits[store][key] = Min(hit, limitMax(l) + 1),
                                  !.req.pc = "rejecting",
                                  !.by = l]
  /\ UNCHANGED <<core, sweep, ws, ctl, maint>>

\* windowMs after the first hit of a key its count starts again
WindowExpires(l, key) ==
  /\ lim.hits[StoreOf(l)][key] > 0
  /\ lim.resets < MaxWindows
  /\ lim' = [lim EXCEPT !.hits[StoreOf(l)][key] = 0,
                        !.allowed[l][key] = 0,
                        !.resets = @ + 1]
  /\ UNCHANGED <<core, sweep, ws, ctl, maint>>

\* the handler option of createLimiter: await AuditLog.log(...), then
\* res.status(429); when the audit write rejects no 429 is sent
Reject ==
  /\ lim.req.pc = "rejecting"
  /\ \E audited \in BOOLEAN :
       lim' = [lim EXCEPT !.req = NoRequest,
                          !.outcome = IF audited THEN "RateLimited" ELSE "InternalError"]
  /\ UNCHANGED <<core, sweep, ws, ctl, maint>>

\* router.use(authenticate): a request without a valid token is answered 401
Authenticate ==
  /\ lim.req.pc = "authenticate"
  /\ \E valid \in BOOLEAN :
       lim' = IF valid
                THEN [lim EXCEPT !.req.pc = RouteLimiter(lim.req.kind)]
                ELSE [lim EXCEPT !.req = NoRequest, !.outcome = "Unauthorized"]
  /\ UNCHANGED <<core, sweep, ws, ctl, maint>>

\* POST /connect behind its limiter: validateConnection, then the
\* controller calls WireGuardService.connect
ConnectRoute(p) ==
  /\ lim.req.pc = "controller"
  /\ lim.req.kind = "connect"
  /\ \E valid \in BOOLEAN :
       IF valid
         THEN /\ connect(p, lim.req.userId, lim.req.serverId)
              /\ UNCHANGED ctl
              /\ lim' = [lim EXCEPT !.req = NoRequest, !.outcome = "Admitted"]
         ELSE /\ lim' = [lim EXCEPT !.req = NoRequest, !.outcome = "ValidationError"]
              /\ UNCHANGED <<core, sweep, ws, ctl, maint>>

\* any other route of the API behind the user limiter
OtherRoute ==
  /\ lim.req.pc = "controller"
  /\ lim.req.kind = "other"
  /\ lim' = [lim EXCEPT !.req = NoRequest, !.outcome = "Admitted"]
  /\ UNCHANGED <<core, sweep, ws, ctl, maint>>

NextAdmission ==
  \/ \E kind \in Kinds, ip \in Ips, u \in Users : Receive(kind, ip, u)
  \/ \E l \in Limiters : Limit(l)
  \/ \E l \in Limiters, key \in Keys : WindowExpires(l, key)
  \/ Reject
  \/ Authenticate
  \/ \E p \in Procs : ConnectRoute(p)
  \/ OtherRoute
  \/ \E p \in Procs : ConnectFind(p)
  \/ \E p \in Procs : ConnectActive(p)
  \/ \E p \in Procs : ConnectCount(p)
  \/ \E p \in Procs : ConnectCreate(p)
  \/ \E p \in Procs : ConnectArm(p)
  \/ \E s \in SessionIds : SettleSave(s)
  \/ \E s \in SessionIds : SettleInc(s)

\* --------------------------------- Connect, settle and Disconnect alone
NextOccupancy ==
  \/ \E p \in Procs, u \in Users, n \in Servers : StartConnect(p, u, n)
  \/ \E p \in Procs : ConnectFind(p)
  \/ \E p \in Procs : ConnectActive(p)
  \/ \E p \in Procs : ConnectCount(p)
  \/ \E p \in Procs : ConnectCreate(p)
  \/ \E p \in Procs : ConnectArm(p)
  \/ \E s \in SessionIds : SettleSave(s)
  \/ \E s \in SessionIds : SettleInc(s)
  \/ \E p \in Procs, u \in Users, s \in KnownIds : StartDisconnect(p, u, s)
  \/ \E p \in Procs : DisconnectFind(p)
  \/ \E p \in Procs : DisconnectSave(p)
  \/ \E p \in Procs : DisconnectRelease(p)
  \/ \E p \in Procs : DisconnectFinish(p)
  \/ \E p \in Procs : DisconnectMark(p)

\* ------------------------------- the load sweep beside Connect and Disconnect
NextLoadRace ==
  \/ NextOccupancy
  \/ StartLoads
  \/ LoadCount
  \/ LoadWrite

\* -------------------------------------------------- the config directory
\* wireguard-configs/wg-<connectionId>.conf: written by connect, unlinked by
\* disconnect when its copy of the document names the file, and swept by
\* cleanupOrphanedConfigs. maint.file[s] is "none" before the file of
\* session s is written, "written" while it is in the directory, "unlinked"
\* after; maint.named holds the sessions whose stored document has
\* config.configFile, maint.held the handlers whose copy of the document has.

\* fs.mkdir and fs.writeFile
WriteConfig(p) ==
  /\ proc[p].pc = "c_arm"
  /\ maint.file[proc[p].sid] = "none"
  /\ maint' = [maint EXCEPT !.file[proc[p].sid] = "written"]
  /\ UNCHANGED <<core, sweep, ws, lim, ctl>>

\* connection.config.configFile = configFileName; await connection.save()
NameConfig(p) ==
  /\ proc[p].pc = "c_arm"
  /\ maint.file[proc[p].sid] # "none"
  /\ proc[p].sid \notin maint.named
  /\ maint' = [maint EXCEPT !.named = @ \cup {proc[p].sid}]
  /\ UNCHANGED <<core, sweep, ws, lim, ctl>>

\* the rest of connect: it returns only after the file was written and named
ConnectArmFiles(p) ==
  /\ ConnectArm(p)
  /\ proc'[p].result = "ok" => proc[p].sid \in maint.named

\* Connection.findById of disconnect: the copy has config.configFile when the
\* stored document has it at this moment
DisconnectFindFiles(p) ==
  /\ findById(p)
  /\ maint' = [maint EXCEPT !.held = IF proc[p].sid \in maint.named
                                       THEN @ \cup {p} ELSE @ \ {p}]

\* if (connection.config.configFile) fs.unlink(configFilePath); a failure of
\* unlink is logged and the disconnect goes on
UnlinkConfig(p) ==
  /\ proc[p].pc = "d_finish"
  /\ p \in maint.held
  /\ maint.file[proc[p].sid] = "written"
  /\ maint' = [maint EXCEPT !.file[proc[p].sid] = "unlinked"]
  /\ UNCHANGED <<core, sweep, ws, lim, ctl>>

\* cleanupOrphanedConfigs: fs.readdir and the filter on .conf. maint.faulted
\* tells whether the job's last step met an error.
StartCleanup ==
  /\ maint.pc = "idle"
  /\ \E s \in SessionIds : maint.file[s] # "none"
  /\ LET files == {s \in SessionIds : maint.file[s] = "written"}
     IN maint' = [maint EXCEPT !.pc = "scan", !.todo = files, !.cur = NoSession,
                               !.faulted = FALSE]
  /\ UNCHANGED <<core, sweep, ws, lim, ctl>>

\* the sessions whose file cleanupOrphanedConfigs unlinks
Orphaned(s) == ~Exists(s) \/ conn[s].status = "disconnected"

\* one file of the loop: Connection.findById and the test; an error is
\* logged and the loop goes on with the next file
CleanupFind(s) ==
  /\ maint.pc = "scan"
  /\ maint.cur = NoSession
  /\ s \in maint.todo
  /\ \E ok \in BOOLEAN :
       maint' = IF ~ok THEN [maint EXCEPT !.todo = @ \ {s}, !.faulted = TRUE]
                ELSE IF Orphaned(s) THEN [maint EXCEPT !.cur = s, !.faulted = FALSE]
                ELSE [maint EXCEPT !.todo = @ \ {s}, !.faulted = FALSE]
  /\ UNCHANGED <<core, sweep, ws, lim, ctl>>

\* fs.unlink of the file chosen; it throws when the file is gone already
CleanupUnlink ==
  /\ maint.pc = "scan"
  /\ maint.cur # NoSession
  /\ \E ok \in BOOLEAN :
       maint' = IF ok /\ maint.file[maint.cur] = "written"
                  THEN [maint EXCEPT !.file[maint.cur] = "unlinked",
                                     !.todo = @ \ {maint.cur}, !.cur = NoSession,
                                     !.faulted = FALSE]
                  ELSE [maint EXCEPT !.todo = @ \ {maint.cur}, !.cur = NoSession,
                                     !.faulted = TRUE]
  /\ UNCHANGED <<core, sweep, ws, lim, ctl>>

\* the loop is over
CleanupEnd ==
  /\ maint.pc = "scan"
  /\ maint.cur = NoSession
  /\ maint.todo = {}
  /\ maint' = [maint EXCEPT !.pc = "idle", !.faulted = FALSE]
  /\ UNCHANGED <<core, sweep, ws, lim, ctl>>

\* the requests and the cleanup runs within the second before the first
\* settle timer is due
NextConfigs ==
  \/ \E p \in Procs, u \in Users, n \in Servers : StartConnect(p, u, n)
  \/ \E p \in Procs : ConnectFind(p)
  \/ \E p \in Procs : ConnectActive(p)
  \/ \E p \in Procs : ConnectCount(p)
  \/ \E p \in Procs : ConnectCreate(p)
  \/ \E p \in Procs : WriteConfig(p)
  \/ \E p \in Procs : NameConfig(p)
  \/ \E p \in Procs : ConnectArmFiles(p)
  \/ \E p \in Procs, u \in Users, s \in KnownIds : StartDisconnect(p, u, s)
  \/ \E p \in Procs : DisconnectFindFiles(p)
  \/ \E p \in Procs : DisconnectSave(p)
  \/ \E p \in Procs : DisconnectRelease(p)
  \/ \E p \in Procs : UnlinkConfig(p)
  \/ \E p \in Procs : DisconnectFinish(p)
  \/ \E p \in Procs : DisconnectMark(p)
  \/ StartCleanup
  \/ \E s \in SessionIds : CleanupFind(s)
  \/ CleanupUnlink
  \/ CleanupEnd

\* -------------------------------------------------------- emergencyCleanup
\* Connection.find({status: {$in: ['connected', 'connecting']}}); maint.found
\* holds the documents of the result that the loop has not saved yet
StartEmergency ==
  /\ maint.emergency = "idle"
  /\ \E ok \in BOOLEAN :
       maint' = IF ok
                  THEN [maint EXCEPT !.emergency = "save",
                                     !.found = {s \in SessionIds :
                                                  conn[s].status \in ActiveStatuses}]
                  ELSE [maint EXCEPT !.emergency = "failed"]
  /\ UNCHANGED <<core, sweep, ws, lim, ctl>>

\* one round of the loop: status, endTime and duration set on the copy that
\* find returned, and connection.save()
EmergencySave(s) ==
  /\ maint.emergency = "save"
  /\ s \in maint.found
  /\ \E ok \in BOOLEAN :
       IF ok
         THEN /\ conn' = [conn EXCEPT ![s].status = "disconnected",
                                      ![s].endTime = @ + 1,
                                      ![s].duration = conn[s].endTime + 1]
              /\ maint' = [maint EXCEPT !.found = @ \ {s}]
         ELSE /\ conn' = conn
              /\ maint' = [maint EXCEPT !.emergency = "failed", !.found = {}]
  /\ UNCHANGED <<sweep, ws, lim, ctl, occ0, last, srv, settle, settleSaw, supersedes,
                 proc, health, calls>>

\* Server.updateMany({}, {$set: {currentUsers: 0}}) in a module that does not
\* import Server: the expression throws a ReferenceError before any update is
\* sent, the catch block logs it and throws it again.
EmergencyReset ==
  /\ maint.emergency = "save"
  /\ maint.found = {}
  /\ maint' = [maint EXCEPT !.emergency = "ended"]
  /\ UNCHANGED <<core, sweep, ws, lim, ctl>>

\* Connects and their settle timers, then one call of emergencyCleanup, made
\* when no handler is running and after which no Connect arrives
NextEmergency ==
  \/ maint.emergency = "idle"
       /\ \E p \in Procs, u \in Users, n \in Servers : StartConnect(p, u, n)
  \/ \E p \in Procs : ConnectFind(p)
  \/ \E p \in Procs : ConnectActive(p)
  \/ \E p \in Procs : ConnectCount(p)
  \/ \E p \in Procs : ConnectCreate(p)
  \/ \E p \in Procs : ConnectArm(p)
  \/ \E s \in SessionIds : SettleSave(s)
  \/ \E s \in SessionIds : SettleInc(s)
  \/ \E p \in Procs : DisconnectFind(p)
  \/ \E p \in Procs : DisconnectSave(p)
  \/ \E p \in Procs : DisconnectRelease(p)
  \/ \E p \in Procs : DisconnectFinish(p)
  \/ \E p \in Procs : DisconnectMark(p)
  \/ (\A p \in Procs : proc[p].pc = "idle") /\ StartEmergency
  \/ \E s \in SessionIds : EmergencySave(s)
  \/ EmergencyReset

\* ----------------------------------------------------------- vpnController
\* the handlers of POST /connect, /quick-connect and /disconnect/:id around
\* the service calls. No WebSocket is connected in this specification, so a
\* broadcastToUser call changes nothing but the record of what was published.
Routes == {"connect", "quick", "disconnect"}

InitControllers ==
  /\ srv \in [Servers -> {[active |-> TRUE, healthStatus |-> "healthy", load |-> 0,
                           ping |-> 0, currentUsers |-> 0, maxUsers |-> m,
                           isPremium |-> FALSE, countryCode |-> "US"] :
                          m \in {1}}]
  /\ conn = [s \in SessionIds |-> NoConn]
  /\ settle = [s \in SessionIds |-> "none"]
  /\ settleSaw = [s \in SessionIds |-> "none"]
  /\ supersedes = [s \in SessionIds |-> NoSession]
  /\ proc = [p \in Procs |-> IdleProc]
  /\ health = [n \in Servers |-> IdleHealth]
  /\ calls = 0
  /\ occ0 = [n \in Servers |-> srv[n].currentUsers]
  /\ last = NoOp
  /\ sweep = IdleSweep
  /\ ws = NoSockets
  /\ lim = NoHits
  /\ ctl = NoCtl
  /\ maint = NoMaint

\* connect: await WireGuardService.connect(userId, serverId, ...)
ConnectController(p, userId, serverId) ==
  /\ ctl.route[p] = "none"
  /\ connect(p, userId, serverId)
  /\ ctl' = [ctl EXCEPT !.route[p] = "connect"]
  /\ UNCHANGED lim

\* quickConnect: getOptimalServer(user.subscription, preferredCountry), then
\* WireGuardService.connect on the node returned; getOptimalServer throws
\* when it finds no node
QuickConnectController(p, userId, userSubscription) ==
  /\ ctl.route[p] = "none"
  /\ LET found == getOptimalServer(srv, userSubscription, "none")
     IN IF found = {}
          THEN /\ Free(p)
               /\ calls < MaxCalls
               /\ calls' = calls + 1
               /\ UNCHANGED ctl
               /\ UNCHANGED <<srv, conn, settle, settleSaw, supersedes, proc, health,
                              occ0, last, sweep, ws, maint>>
          ELSE \E n \in found :
                 /\ connect(p, userId, n)
                 /\ ctl' = [ctl EXCEPT !.route[p] = "quick"]
  /\ UNCHANGED lim

\* disconnect: await WireGuardService.disconnect(connectionId, userId)
DisconnectController(p, userId, sid) ==
  /\ ctl.route[p] = "none"
  /\ disconnect(p, userId, sid)
  /\ ctl' = [ctl EXCEPT !.route[p] = "disconnect"]

\* what the handler answers after its service call: an error of the service
\* goes to next(error) as it is; quickConnect writes an audit record before
\* it answers, and that write's error goes to next(error) too
Answer(p, audited) ==
  IF proc[p].result # "ok" THEN proc[p].result
  ELSE IF ctl.route[p] = "quick" /\ ~audited THEN "InternalError"
  ELSE "ok"

\* the handler after its service call: connect publishes connection_started
\* and answers 201; quickConnect answers without a broadcastToUser call;
\* disconnect publishes connection_ended and answers
Respond(p) ==
  /\ ctl.route[p] # "none"
  /\ proc[p].pc = "idle"
  /\ \E audited \in BOOLEAN :
       LET s == proc[p].sid
           done == [ctl EXCEPT !.route[p] = "none"]
       IN ctl' = IF Answer(p, audited) # "ok" THEN done
                 ELSE IF ctl.route[p] = "quick" THEN [done EXCEPT !.silent = @ \cup {s}]
                 ELSE IF ctl.route[p] = "disconnect" THEN [done EXCEPT !.ended = @ \cup {s}]
                 ELSE done
  /\ UNCHANGED <<core, sweep, ws, lim, maint>>

\* The handler resumes in the microtask that follows the service's return,
\* ahead of every pending I/O completion and timer: while a handler has its
\* answer to give, nothing else runs.
Answering == \E p \in Procs : ctl.route[p] # "none" /\ proc[p].pc = "idle"

NextControllers ==
  \/ \E p \in Procs : Respond(p)
  \/ ~Answering /\ \E p \in Procs, u \in Users, n \in Servers : ConnectController(p, u, n)
  \/ ~Answering /\ \E p \in Procs, u \in Users, t \in Tiers : QuickConnectController(p, u, t)
  \/ ~Answering /\ \E p \in Procs, u \in Users, s \in KnownIds : DisconnectController(p, u, s)
  \/ ~Answering /\ \E p \in Procs : ConnectFind(p)
  \/ ~Answering /\ \E p \in Procs : ConnectActive(p)
  \/ ~Answering /\ \E p \in Procs : ConnectCount(p)
  \/ ~Answering /\ \E p \in Procs : ConnectCreate(p)
  \/ ~Answering /\ \E p \in Procs : ConnectArm(p)
  \/ ~Answering /\ \E s \in SessionIds : SettleSave(s)
  \/ ~Answering /\ \E s \in SessionIds : SettleInc(s)
  \/ ~Answering /\ \E p \in Procs : DisconnectFind(p)
  \/ ~Answering /\ \E p \in Procs : DisconnectSave(p)
  \/ ~Answering /\ \E p \in Procs : DisconnectRelease(p)
  \/ ~Answering /\ \E p \in Procs : DisconnectFinish(p)
  \/ ~Answering /\ \E p \in Procs : DisconnectMark(p)

\* ------------------------------------------------ one session's round trip
\* A catalogue as the seed script writes it: currentUsers is set on the node
\* document with no Connection documents behind it.
InitRoundTrip ==
  /\ srv \in [Servers -> {[active |-> TRUE, healthStatus |-> "healthy", load |-> 0,
                           ping |-> 0, currentUsers |-> k, maxUsers |-> m] :
                          m \in 1..MaxCapacity, k \in 0..MaxCapacity}]
  /\ \A n \in Servers : srv[n].currentUsers <= srv[n].maxUsers
  /\ conn = [s \in SessionIds |-> NoConn]
  /\ settle = [s \in SessionIds |-> "none"]
  /\ settleSaw = [s \in SessionIds |-> "none"]
  /\ supersedes = [s \in SessionIds |-> NoSession]
  /\ proc = [p \in Procs |-> IdleProc]
  /\ health = [n \in Servers |-> IdleHealth]
  /\ calls = 0
  /\ occ0 = [n \in Servers |-> srv[n].currentUsers]
  /\ last = NoOp
  /\ sweep = IdleSweep
  /\ ws = NoSockets
  /\ lim = NoHits
  /\ ctl = NoCtl
  /\ maint = NoMaint

\* one connect, its settle callback, and one disconnect of the session it
\* created by the session's owner, interleaved at every await
NextRoundTrip ==
  \/ \E p \in Procs, u \in Users, n \in Servers : calls = 0 /\ StartConnect(p, u, n)
  \/ \E p \in Procs : ConnectFind(p)
  \/ \E p \in Procs : ConnectActive(p)
  \/ \E p \in Procs : ConnectCount(p)
  \/ \E p \in Procs : ConnectCreate(p)
  \/ \E p \in Procs : ConnectArm(p)
  \/ \E s \in SessionIds : SettleSave(s)
  \/ \E s \in SessionIds : SettleInc(s)
  \/ \E p \in Procs, s \in KnownIds \ {NoSession} :
       calls = 1 /\ StartDisconnect(p, conn[s].userId, s)
  \/ \E p \in Procs : DisconnectFind(p)
  \/ \E p \in Procs : DisconnectSave(p)
  \/ \E p \in Procs : DisconnectRelease(p)
  \/ \E p \in Procs : DisconnectFinish(p)
  \/ \E p \in Procs : DisconnectMark(p)

\* ===================================================================
\* Properties
\* ===================================================================
SessionsOf(userId) ==
  {s \in SessionIds : conn[s].userId = userId /\ conn[s].status \in NonTerminal}

ActiveOn(serverId) ==
  {s \in SessionIds : conn[s].serverId = serverId /\ conn[s].status \in ActiveStatuses}

ErrorResults ==
  {"NotFound", "AccessDenied", "NotActive"}

\* C1: every client has at most one session in connecting, connected or
\* disconnecting, in every reachable state.
C1_SingleLiveSession ==
  \A u \in Users : Cardinality(SessionsOf(u)) <= 1

\* C2: every node's occupancy counter stays within 0..maxUsers.
C2_OccupancyInRange ==
  \A n \in Servers : 0 <= srv[n].currentUsers /\ srv[n].currentUsers <= srv[n].maxUsers

\* C3: a session is created on a node only while the sessions other clients
\* hold on that node leave room under the reservation threshold, so two
\* clients racing for the last slot cannot both obtain a session.
C3_LastSlotOnce ==
  [][\A s \in SessionIds :
       (~Exists(s) /\ conn'[s].status = "connecting") =>
         ~AtCapacity(
            Cardinality({t \in ActiveOn(conn'[s].serverId) :
                           conn[t].userId # conn'[s].userId}),
            srv[conn'[s].serverId].maxUsers)]_vars

\* C4: the settle callback of a session that is already terminal changes
\* neither the session's status nor the node's occupancy.
C4_SettleSkipsTerminal ==
  [][\A s \in SessionIds :
       /\ (settle[s] = "pending" /\ settle'[s] # "pending" /\ conn[s].status \in Terminal)
            => conn'[s].status = conn[s].status
       /\ (settle[s] = "saved" /\ settle'[s] = "done" /\ settleSaw[s] \in Terminal)
            => srv' = srv]_vars

\* C5: while a session created by a superseding Connect exists, the session
\* it superseded is terminal.
C5_PriorEndedFirst ==
  \A s \in SessionIds :
    (Exists(s) /\ supersedes[s] # NoSession) => conn[supersedes[s]].status \in Terminal

\* C6: a Disconnect refused for lack of ownership ends with AccessDenied and
\* changes neither the session nor the node.
C6_DeniedDisconnectNoEffect ==
  [][\A p \in Procs :
       (proc[p].pc = "d_mark" /\ proc[p].cause = "AccessDenied" /\ proc'[p].pc # "d_mark")
         => /\ proc'[p].result = "AccessDenied"
            /\ conn' = conn
            /\ srv' = srv]_vars

\* C7: a Disconnect that finds its session already terminal changes neither
\* the session (status, endTime, duration) nor the node's occupancy.
C7_DisconnectTerminalNoOp ==
  [][\A p \in Procs :
       /\ (proc[p].pc = "d_save" /\ proc'[p].pc # "d_save" /\ proc[p].seen \in Terminal)
            => conn' = conn
       /\ (proc[p].pc = "d_release" /\ proc'[p].pc # "d_release"
             /\ proc[p].seen \in Terminal)
            => srv' = srv]_vars

\* C8: updateStats that finds its session in a status other than connected
\* ends with an error at once and writes nothing to the session.
C8_StatsRejectedUnlessConnected ==
  [][\A p \in Procs :
       (proc[p].pc = "u_find" /\ proc'[p].pc # "u_find"
          /\ (Exists(proc[p].sid) => conn[proc[p].sid].status # "connected"))
         => /\ proc'[p].pc = "idle"
            /\ proc'[p].result \in ErrorResults
            /\ conn' = conn]_vars

\* a rejected updateStats on a disconnected session, its totals untouched
C8_Witness ==
  \E p \in Procs :
    /\ proc[p].pc = "idle"
    /\ proc[p].result = "NotActive"
    /\ conn[proc[p].sid].status = "disconnected"
    /\ conn[proc[p].sid].upload = 0
    /\ conn[proc[p].sid].download = 0

\* C9: a session is not left in connecting once its connect deadline has
\* gone by without confirmation: it has been moved to timeout.
C9_DeadlineTimesOut ==
  \A s \in SessionIds : settle[s] = "expired" => conn[s].status # "connecting"

\* C10: the health sweep step that marks a node offline moves every active
\* session of that node to error and resets the node's occupancy to 0.
C10_OfflineTerminatesSessions ==
  [][\A n \in Servers :
       (srv[n].healthStatus # "offline" /\ srv'[n].healthStatus = "offline"
          /\ ActiveOn(n) # {})
         => /\ \A s \in ActiveOn(n) :
                 conn'[s].status = "error" /\ conn'[s].errorCode # "none"
            /\ srv'[n].currentUsers = 0]_vars

\* the settle callback of s has run to its end, a disconnect of s has saved
\* and released, and no handler is in flight
RoundTripDone(s) ==
  /\ settle[s] = "done"
  /\ conn[s].duration # 0
  /\ \A p \in Procs : proc[p].pc = "idle"

\* C11: when a connect with its settle callback and a disconnect of the same
\* session have both run to their end, in either order, the node's occupancy
\* is the value it had before the connect.
C11_ReserveReleaseRoundTrip ==
  \A s \in SessionIds :
    RoundTripDone(s) => srv[conn[s].serverId].currentUsers = occ0[conn[s].serverId]

\* the disconnect ran first and the settle callback after it, on a node that
\* started empty
C11_Witness ==
  \E s \in SessionIds :
    /\ RoundTripDone(s)
    /\ settleSaw[s] = "disconnected"
    /\ occ0[conn[s].serverId] = 0

\* C12: connect creates a session on a node only while the node is not
\* offline and its occupancy is below 0.95 x maxUsers, and it refuses an
\* active node for lack of room only when one of the two fails; a refusal
\* creates no session and leaves the occupancy as it was.
C12_ReserveIffRoom ==
  [][\A p \in Procs :
       /\ (proc[p].pc = "c_create" /\ proc'[p].pc = "c_arm")
            => /\ srv[proc[p].serverId].healthStatus # "offline"
               /\ ~AtCapacity(srv[proc[p].serverId].currentUsers,
                              srv[proc[p].serverId].maxUsers)
       /\ (proc[p].pc \in {"c_find", "c_count"} /\ proc'[p].pc = "idle"
             /\ proc'[p].result \in {"ServerNotAvailable", "AtCapacity"})
            => /\ \/ srv[proc[p].serverId].healthStatus = "offline"
                  \/ AtCapacity(srv[proc[p].serverId].currentUsers,
                                srv[proc[p].serverId].maxUsers)
               /\ conn' = conn
               /\ srv' = srv]_vars

\* C13: every change of a session's status is a step of the state machine
\* connecting -> connected -> disconnecting -> disconnected, with error and
\* timeout entered only from a non-terminal status.
C13_StateMachineOrder ==
  [][\A s \in SessionIds :
       conn'[s].status # conn[s].status =>
         \/ conn[s].status = "none" /\ conn'[s].status = "connecting"
         \/ conn[s].status = "connecting" /\ conn'[s].status = "connected"
         \/ conn[s].status \in ActiveStatuses /\ conn'[s].status = "disconnecting"
         \/ conn[s].status = "disconnecting" /\ conn'[s].status = "disconnected"
         \/ conn[s].status \in NonTerminal /\ conn'[s].status \in {"error", "timeout"}]_vars

\* C14: once a session is disconnected or error, no step changes its status,
\* endTime, duration or transferred-byte totals.
C14_TerminalImmutable ==
  [][\A s \in SessionIds :
       conn[s].status \in {"disconnected", "error"} =>
         /\ conn'[s].status = conn[s].status
         /\ conn'[s].endTime = conn[s].endTime
         /\ conn'[s].duration = conn[s].duration
         /\ conn'[s].upload = conn[s].upload
         /\ conn'[s].download = conn[s].download
         /\ conn'[s].total = conn[s].total]_vars

\* C15: the node a selection returns has, among the candidates
\* considered (those of the preferred region when there are any, else all),
\* the greatest score 0.4(100 - load) + 0.4(100 - min(ping, 200)/2)
\* + 0.2(100 - 100 occupancy/maxUsers); equal scores are decided by lower
\* occupancy, then lower load, then node identity.
C15_PicksMaxScore ==
  [][(last' # last /\ last'.op = "select" /\ last'.outcome = "ok") =>
       LET all == Candidates(srv, last'.tier)
           inRegion == {m \in all : srv[m].countryCode = toUpperCase(last'.region)}
           considered == IF last'.region # "none" /\ inRegion # {} THEN inRegion ELSE all
           n == last'.node
           \* the score multiplied by 10 x maxUsers
           score(x) == 4 * (100 - x.load) * x.maxUsers
                         + 2 * (200 - Min(x.ping, 200)) * x.maxUsers
                         + 2 * (100 * x.maxUsers - 100 * x.currentUsers)
           left(m) == score(srv[n]) * srv[m].maxUsers
           right(m) == score(srv[m]) * srv[n].maxUsers
       IN \A m \in considered :
            \/ left(m) > right(m)
            \/ /\ left(m) = right(m)
               /\ \/ srv[n].currentUsers < srv[m].currentUsers
                  \/ /\ srv[n].currentUsers = srv[m].currentUsers
                     /\ \/ srv[n].load < srv[m].load
                        \/ srv[n].load = srv[m].load /\ n <= m]_vars

C19_MetricsClamped ==
  last.op = "metrics" =>
    /\ 0 <= srv[last.node].load
    /\ srv[last.node].load <= 100
    /\ 0 <= srv[last.node].ping
    /\ last.metrics.currentUsers # UNDEF =>
         /\ 0 <= srv[last.node].currentUsers
         /\ srv[last.node].currentUsers <= srv[last.node].maxUsers

\* metrics above the range for load and occupancy and below it for ping
\* were given and the bounds were stored
C19_Witness ==
  /\ last.op = "metrics"
  /\ last.metrics.load > 100
  /\ last.metrics.ping < 0 /\ last.metrics.ping # UNDEF
  /\ last.metrics.currentUsers > srv[last.node].maxUsers
  /\ srv[last.node].load = 100
  /\ srv[last.node].ping = 0
  /\ srv[last.node].currentUsers = srv[last.node].maxUsers

C21_FailureIsolated ==
  /\ [](sweep.pc = "idle" /\ sweep.applied \cup sweep.failed # {}
          => sweep.applied \cup sweep.failed = {n \in DOMAIN srv : srv[n].active})
  /\ [][/\ sweep'.faults > sweep.faults
            => /\ srv' = srv
               /\ health' = health
               /\ sweep' = [sweep EXCEPT !.faults = @ + 1]
        /\ \A n \in DOMAIN srv :
             /\ (n \in sweep'.failed /\ n \notin sweep.failed)
                  => /\ sweep'.todo = sweep.todo \ {n}
                     /\ sweep'.applied = sweep.applied
             /\ (health[n].pc # "idle" /\ health'[n].pc = "idle")
                  => \A m \in DOMAIN srv \ {n} : health'[m] = health[m]]_vars

\* a load sweep failed on the first node and applied the second node's
\* metrics, after a periodic task had thrown
C21_Witness ==
  /\ sweep.pc = "idle"
  /\ sweep.failed = {1}
  /\ sweep.applied = {2}
  /\ sweep.faults > 0
  /\ srv[2].load = 10

\* the socket accepted last for a user: sockets are numbered as accepted
Newest(u) ==
  CHOOSE k \in Socks :
    /\ ws.sock[k].userId = u
    /\ \A j \in Socks : ws.sock[j].userId = u => j <= k

\* C22: when a client subscribes again the new subscription replaces the
\* previous one: an event published for a client whose newest subscription
\* is open is delivered to that subscription and to no other.
C22_NewestSubscriptionReceives ==
  [][\A u \in Users :
       (/\ ws'.pubs = ws.pubs + 1
        /\ ws'.to = u
        /\ \E k \in Socks : ws.sock[k].userId = u
        /\ IsOpen(Newest(u)))
       => \A k \in Socks :
            ws'.sock[k].inbox = IF k = Newest(u)
                                  THEN ws.sock[k].inbox \cup {ws.pubs + 1}
                                  ELSE ws.sock[k].inbox]_vars

\* C23: a publication is one step that changes nothing but the inboxes: the
\* event reaches the subscriber registered for the client (every registered
\* subscriber, for a broadcast) if it is open, and is dropped otherwise; no
\* other step delivers an event, so a dropped event is never delivered later.
C23_PublishDropsWhenNotOpen ==
  [][IF ws'.pubs # ws.pubs
       THEN /\ ws'.pubs = ws.pubs + 1
            /\ ws'.clients = ws.clients
            /\ ws'.intervals = ws.intervals
            /\ ws'.scheduled = ws.scheduled
            /\ \A k \in Socks :
                 LET aimed == IF ws'.to = NoUser
                                THEN \E u \in Users : ws.clients[u] = k
                                ELSE ws.clients[ws'.to] = k
                 IN /\ ws'.sock[k].state = ws.sock[k].state
                    /\ ws'.sock[k].inbox =
                         IF aimed /\ ws.sock[k].state = "open"
                           THEN ws.sock[k].inbox \cup {ws.pubs + 1}
                           ELSE ws.sock[k].inbox
       ELSE \A k \in Socks : ws'.sock[k].inbox = ws.sock[k].inbox]_vars

\* after a publication and a broadcast a registered subscriber that is
\* closing has received nothing and an open one has received the broadcast
C23_Witness ==
  /\ ws.pubs = 2
  /\ ws.to = NoUser
  /\ \E k, j \in Socks :
       /\ ws.sock[k].userId # NoUser
       /\ ws.sock[j].userId # NoUser
       /\ ws.clients[ws.sock[k].userId] = k
       /\ ws.sock[k].state = "closing"
       /\ ws.sock[k].inbox = {}
       /\ ws.clients[ws.sock[j].userId] = j
       /\ ws.sock[j].state = "open"
       /\ ws.sock[j].inbox = {2}

\* C24: a closed connection has no entry in the registry, no heartbeat
\* interval, and no update interval created for it that is still scheduled
\* or still stored in connectionIntervals.
C24_ClosedReleased ==
  \A k \in Socks :
    ws.sock[k].state = "closed"
      => /\ \A u \in Users : ws.clients[u] # k
         /\ ~ws.sock[k].heartbeat
         /\ \A t \in Timers :
              ws.owner[t] = k
                => /\ t \notin ws.scheduled
                   /\ \A u \in Users : ws.intervals[u] # t

\* C25: no limiter allows more than its max requests of one key in one
\* window; a limiter's step counts under its own key only and leaves every
\* other key and every other limiter as they are; it admits the request
\* exactly when fewer than max were admitted for the key in the window, so a
\* key whose window has expired is admitted again.
C25_WindowCounting ==
  /\ [](\A l \in Limiters, k \in Keys : lim.allowed[l][k] <= limitMax(l))
  /\ [][\A l \in Limiters, k \in Keys :
          LET limited == lim.req.pc \in Limiters /\ lim'.req.pc # lim.req.pc
              here == lim.req.pc = l /\ keyGenerator(l, lim.req) = k
          IN /\ (limited /\ ~here)
                  => /\ lim'.hits[l][k] = lim.hits[l][k]
                     /\ lim'.allowed[l][k] = lim.allowed[l][k]
             /\ (limited /\ here)
                  => /\ (lim'.req.pc # "rejecting") <=> (lim.allowed[l][k] < limitMax(l))
                     /\ lim'.hits[l][k] > lim.hits[l][k] \/ lim'.req.pc = "rejecting"
             /\ (lim'.resets # lim.resets /\ lim'.hits[l][k] # lim.hits[l][k])
                  => /\ lim'.hits[l][k] = 0
                     /\ lim'.allowed[l][k] = 0
                     /\ \A m \in Limiters, j \in Keys :
                          <<m, j>> # <<l, k>> => lim'.hits[m][j] = lim.hits[m][j]]_vars

\* the connection limiter rejected an address, the key's window expired and
\* a later request of the address was admitted
C25_Witness ==
  /\ lim.by = "connection"
  /\ lim.resets = 1
  /\ lim.reqs = 3
  /\ lim.outcome = "Admitted"
  /\ lim.allowed["connection"][<<"ip", 1>>] = MaxAllowed
  /\ lim.hits["general"][<<"ip", 1>>] = 3

\* C26: a request rejected by a limiter is answered RateLimited and the
\* rejection changes no session, no settle and no node counter.
C26_RejectedIsRateLimited ==
  [][(lim.req.pc = "rejecting" /\ lim'.req.pc = "none")
       => /\ lim'.outcome = "RateLimited"
          /\ UNCHANGED core]_vars

\* C27: the step of an UpdateMetrics call that stores the transferred bytes
\* adds the call's upload (download) delta to the session's stored upload
\* (download) total, whatever other calls have stored meanwhile.
C27_TotalsAdditive ==
  [][\A p \in Procs :
       (proc[p].pc = "u_data" /\ proc'[p].pc = "idle")
         => LET s == proc[p].sid
            IN /\ conn'[s].upload = conn[s].upload + OrElse(proc[p].stats.upload, 0)
               /\ conn'[s].download = conn[s].download + OrElse(proc[p].stats.download, 0)]_vars

\* C28: a Disconnect whose save and whose release of the node slot succeeded
\* returns success (or, called by Connect, lets the Connect go on), whether
\* or not the audit record could be written.
C28_AuditFailureHarmless ==
  [][\A p \in Procs :
       (proc[p].pc = "d_finish" /\ proc'[p] # proc[p])
         => IF proc[p].inConnect
              THEN proc'[p].pc = "c_count"
              ELSE proc'[p].pc = "idle" /\ proc'[p].result = "ok"]_vars

C30_ReturnsWhileConnecting ==
  [][\A p \in Procs :
       (proc[p].pc = "c_arm" /\ proc'[p].pc = "idle" /\ proc'[p].result = "ok")
         => conn'[proc[p].sid].status = "connecting"]_vars

\* C33: in every reachable state a session that carries an error record is
\* in the state error.
C33_ReasonOnlyOnError ==
  \A s \in SessionIds : conn[s].errorCode # "none" => conn[s].status = "error"

\* C38: UpdateMetrics by a client that does not own the session ends with
\* AccessDenied whatever the session's state, and no step of an UpdateMetrics
\* call changes the byte totals or the speed and ping values of a session of
\* another client.
C38_StatsNeedOwnership ==
  [][\A p \in Procs :
       LET s == proc[p].sid
       IN /\ (proc[p].pc = "u_find" /\ proc'[p] # proc[p]
                /\ Exists(s) /\ conn[s].userId # proc[p].userId)
               => /\ proc'[p].pc = "idle"
                  /\ proc'[p].result = "AccessDenied"
                  /\ conn' = conn
          /\ (proc[p].pc \in {"u_find", "u_speed", "u_data"} /\ proc'[p] # proc[p]
                /\ Exists(s) /\ conn[s].userId # proc[p].userId)
               => conn' = conn]_vars

\* a client was refused the update of another client's session that had
\* already been disconnected
C38_Witness ==
  \E p \in Procs :
    /\ proc[p].pc = "idle"
    /\ proc[p].result = "AccessDenied"
    /\ proc[p].requester = NoUser
    /\ Exists(proc[p].sid)
    /\ conn[proc[p].sid].status = "disconnected"
    /\ conn[proc[p].sid].errorCode = "none"

\* C37: the close or the error of a connection that was replaced by a newer,
\* open subscription of the same client leaves the newer subscription
\* registered and leaves the client's update timer stored and scheduled.
C37_ReplacedCloseKeepsNewer ==
  [][\A k \in Socks :
       LET u == ws.sock[k].userId
       IN (/\ u # NoUser
           /\ ws'.sock[k].state # ws.sock[k].state
           /\ ws.sock[k].state \in {"open", "closing"}
           /\ Newest(u) # k
           /\ IsOpen(Newest(u))
           /\ ws.clients[u] = Newest(u))
          => /\ ws'.clients[u] = Newest(u)
             /\ ws'.intervals[u] = ws.intervals[u]
             /\ ws'.scheduled = ws.scheduled]_vars

\* no call in progress and no settle callback waiting or running
Quiescent ==
  /\ \A p \in Procs : proc[p].pc = "idle"
  /\ \A s \in SessionIds : settle[s] \notin {"pending", "saved"}

\* C35: in every quiescent state reached by Connect, settle and Disconnect
\* alone, in which no settle callback threw, each node's occupancy counter
\* is the number of its sessions in a non-terminal state.
C35_CounterMatchesSessions ==
  (Quiescent /\ \A s \in SessionIds : settle[s] # "failed")
    => \A n \in Servers :
         srv[n].currentUsers =
           Cardinality({s \in SessionIds :
                          conn[s].serverId = n /\ conn[s].status \in NonTerminal})

\* C36: the write of a load sweep leaves the node's occupancy counter at the
\* smaller of maxUsers and the number of the node's sessions that are
\* connecting or connected at that moment.
C36_SweepWritesCurrentCount ==
  [][(sweep.pc = "l_write" /\ sweep'.applied # sweep.applied)
       => LET n == LoadCurrent
          IN srv'[n].currentUsers =
               Min(srv[n].maxUsers, getServerConnectionsCount(n))]_vars

\* C32: when cleanupOrphanedConfigs is done with the file of a session that
\* is terminal, and met no error of the database or the filesystem on it,
\* the file is not in the directory any more.
C32_TerminalFilesDiscarded ==
  [][\A s \in SessionIds :
       (/\ s \in maint.todo /\ s \notin maint'.todo
        /\ ~maint'.faulted
        /\ conn[s].status \in Terminal)
       => maint'.file[s] # "written"]_vars

\* C39: once an emergencyCleanup that was called when no handler was running
\* is over after every database operation it issued succeeded, and as long
\* as no Connect has started since, no session is Connecting or Connected
\* and every node's counter is 0.
C39_EmergencyLeavesNothingActive ==
  maint.emergency = "ended"
    => /\ \A s \in SessionIds : conn[s].status \notin ActiveStatuses
       /\ \A n \in Servers : srv[n].currentUsers = 0

\* C31: when no handler is running, a SessionStarted event has been
\* published for every session a Connect or quick-connect returned with
\* success, and a SessionEnded event for every session that is Disconnected.
C31_StartAndEndPublished ==
  (\A p \in Procs : ctl.route[p] = "none" /\ proc[p].pc = "idle")
    => \A s \in SessionIds :
         /\ s \notin ctl.silent
         /\ conn[s].status = "disconnected" => s \in ctl.ended

\* C34: a quick-connect whose chosen node refused the reservation does not
\* end before it has given the outcome NoCapacityAvailable.
C34_QuickConnectRetries ==
  [][\A p \in Procs :
       (/\ ctl.route[p] = "quick"
        /\ ctl'.route[p] = "none"
        /\ proc[p].result \in {"AtCapacity", "ServerNotAvailable", "ServerNotActive"})
       => \A audited \in BOOLEAN : Answer(p, audited) = "NoCapacityAvailable"]_vars

Spec == Init /\ [][Next]_vars

SpecRoundTrip == InitRoundTrip /\ [][NextRoundTrip]_vars

SpecSelect == InitSelect /\ [][NextSelect]_vars

SpecMetrics == InitMetrics /\ [][NextMetrics]_vars

SpecSweeps == InitSweeps /\ [][NextSweeps]_vars

SpecSockets == InitSockets /\ [][NextSockets]_vars

SpecAdmission == InitAdmission /\ [][NextAdmission]_vars

SpecOccupancy == Init /\ [][NextOccupancy]_vars

SpecLoadRace == Init /\ [][NextLoadRace]_vars

SpecControllers == InitControllers /\ [][NextControllers]_vars

SpecConfigs == InitAdmission /\ [][NextConfigs]_vars

SpecEmergency == InitAdmission /\ [][NextEmergency]_vars
=============================================================================
